---- MODULE Spec2Model ----
(***************************************************************************)
(* cmim (Cortex-M Interrupt Move): the `Move<T, I>` cell of src/src/lib.rs *)
(* on a single core with preempting exception and interrupt handlers.      *)
(*                                                                         *)
(* The machine is a call stack.  The frame on top of the stack is the code *)
(* that runs; a handler that preempts pushes a frame on top of whatever    *)
(* was running, and the frame below resumes when the handler returns.      *)
(* Every load, store and payload access of try_move, try_free and try_lock *)
(* is a step of its own, so that a preemption can fall between any two.    *)
(***************************************************************************)
EXTENDS Integers, Sequences, FiniteSets, TLC

(* ---------------- bounds ---------------- *)

\* payload values are 1..NumValues
NumValues == 2
\* device interrupts are numbered 0..NumIrq-1
NumIrq == 1
\* frames on the call stack (operations in progress plus live handlers)
MaxDepth == 4
\* tag values 0..MaxTag are drawn where a specification draws the tag
MaxTag == 3

\* calls and preemptions nest at most this deep where termination is checked
LiveDepth == 2

(* ---------------- constants of the program ---------------- *)

UNINIT == 0
INIT_AND_IDLE == 1
LOCKED == 2

\* the content of MaybeUninit::uninit(): no valid payload
Uninitialized == 0

Values == 1..NumValues
Payloads == Values \cup {Uninitialized}

\* the tag value of a frame that has not loaded the tag
NoTag == 0 - 1

(* ---------------- contexts ---------------- *)

\* cortex_m::peripheral::scb::Exception, the members the model uses.
\* NonMaskableInt is not masked by PRIMASK; SysTick is.
Exceptions == {"NonMaskableInt", "SysTick"}
Interrupts == 0..(NumIrq - 1)

\* SCB::vect_active(): VectActive::ThreadMode, ::Exception(e), ::Interrupt{irqn}
ThreadMode == [kind |-> "ThreadMode", exc |-> "none", irqn |-> 0]
VectException(e) == [kind |-> "Exception", exc |-> e, irqn |-> 0]
VectInterrupt(n) == [kind |-> "Interrupt", exc |-> "none", irqn |-> n]
\* a frame that has not read SCB::vect_active()
NoVect == [kind |-> "None", exc |-> "none", irqn |-> 0]

\* Context<I>: Context::Exception(e), Context::Interrupt(i) with i.nr() = n
ContextException(e) == [kind |-> "Exception", exc |-> e, irqn |-> 0]
ContextInterrupt(n) == [kind |-> "Interrupt", exc |-> "none", irqn |-> n]

Handlers == {VectException(e) : e \in Exceptions} \cup {VectInterrupt(n) : n \in Interrupts}
Contexts == {ContextException(e) : e \in Exceptions} \cup {ContextInterrupt(n) : n \in Interrupts}

\* the members of Exception in declaration order; the internal encoding of a
\* member (its discriminant) is its position, counted from 0
ExceptionOrder == <<"NonMaskableInt", "SysTick">>
ExceptionCode(e) == (CHOOSE i \in 1..Len(ExceptionOrder) : ExceptionOrder[i] = e) - 1

\* the number a context or live context is encoded by: the discriminant of
\* an exception, the nr() of an interrupt
Code(c) == IF c.kind = "Exception" THEN ExceptionCode(c.exc) ELSE c.irqn

\* faulty variant of ContextEq: compares the numeric encodings only
ContextEq_CodeOnly(self, other) ==
    other.kind \in {"Exception", "Interrupt"} /\ Code(self) = Code(other)

\* faulty variant of ContextEq: compares the kind only
ContextEq_KindOnly(self, other) ==
    self.kind = other.kind

\* impl PartialEq<VectActive> for Context<I>
ContextEq(self, other) ==
    CASE self.kind = "Exception" /\ other.kind = "Exception" -> self.exc = other.exc
      [] self.kind = "Interrupt" /\ other.kind = "Interrupt" -> self.irqn = other.irqn
      [] OTHER -> FALSE

\* PRIMASK masks every exception of configurable priority, not NMI
NonMaskable(h) == h.kind = "Exception" /\ h.exc = "NonMaskableInt"

(* ---------------- results ---------------- *)

NoRet == [t |-> "none", some |-> FALSE, v |-> 0]
OkNone == [t |-> "Ok", some |-> FALSE, v |-> 0]
OkSome(x) == [t |-> "Ok", some |-> TRUE, v |-> x]
ErrVal(x) == [t |-> "Err", some |-> TRUE, v |-> x]
ErrUnit == [t |-> "Err", some |-> FALSE, v |-> 0]

(* ---------------- state ---------------- *)

VARIABLES
    data,       \* Move.data: the payload cell
    state,      \* Move.state: the atomic tag
    context,    \* Move.context: the bound context
    ctor,       \* which constructor built the instance
    primask,    \* TRUE while interrupts are globally disabled
    stack,      \* the call stack, bottom first; empty = thread mode idle
    last,       \* the operation that took effect last
    deposited,  \* history: a try_move has succeeded and no try_free has since
                \* taken the payload out
    app         \* the timer-uart application: where main is, the interrupts
                \* it has enabled, whether an unwrap has panicked

vars == <<data, state, context, ctor, primask, stack, last, deposited, app>>

Top == stack[Len(stack)]
Pop == SubSeq(stack, 1, Len(stack) - 1)
SetTop(f) == [stack EXCEPT ![Len(stack)] = f]

\* the context that is live when the frames of s are on the stack
RECURSIVE LiveOf(_)
LiveOf(s) ==
    IF s = <<>> THEN ThreadMode
    ELSE IF s[Len(s)].kind = "handler" THEN s[Len(s)].ctx
    ELSE LiveOf(SubSeq(s, 1, Len(s) - 1))

\* SCB::vect_active()
VectActive == LiveOf(stack)

Active(h) == \E i \in 1..Len(stack) : stack[i].kind = "handler" /\ stack[i].ctx = h

NewFrame(kind, ctx, arg) ==
    [kind |-> kind, ctx |-> ctx, pc |-> "enter", arg |-> arg, va |-> NoVect,
     pre |-> NoTag, old |-> Uninitialized, view |-> Uninitialized, ret |-> NoRet,
     pm |-> FALSE, cb |-> 0]

\* `app` where no application is modelled: the operations are called freely
NoApp == [pc |-> "none", enabled |-> {}, panicked |-> FALSE]

\* `last` before any operation has taken effect
NoEvent == [op |-> "none", arg |-> 0, ok |-> FALSE, after |-> 0]

\* what frame f leaves in `last` when its result is set: the operation, the
\* value it was given, whether the result is Ok, and the value deposited by
\* the operation before it when that was a successful try_move (else 0)
Event(f) ==
    [op |-> f.kind, arg |-> IF f.kind = "try_move" THEN f.arg ELSE 0,
     ok |-> (f.ret.t = "Ok"),
     after |-> IF last.op = "try_move" /\ last.ok THEN last.arg ELSE 0]

\* the running frame becomes f; the step that sets its result is the one at
\* which the operation takes effect, and is recorded in `last`
Step(f) ==
    /\ stack' = SetTop(f)
    /\ last' = IF f.ret = NoRet THEN last ELSE Event(f)
    /\ deposited' =
          CASE f.kind = "try_move" /\ f.ret.t = "Ok" -> TRUE
            [] f.kind = "try_free" /\ f.ret.t = "Ok" /\ f.ret.some -> FALSE
            [] OTHER -> deposited

(* ---------------- constructors ---------------- *)

\* faulty variant of NewUninitialized: the tag starts as INIT_AND_IDLE
NewUninitialized_StartsIdle(ctxt) ==
    /\ data = Uninitialized
    /\ state = INIT_AND_IDLE
    /\ context = ctxt
    /\ ctor = "new_uninitialized"

\* Move::new_uninitialized(ctxt)
NewUninitialized(ctxt) ==
    /\ data = Uninitialized
    /\ state = UNINIT
    /\ context = ctxt
    /\ ctor = "new_uninitialized"

\* Move::new(data, ctxt): the tag it stores is Self::UNINIT
New(d, ctxt) ==
    /\ data = d
    /\ state = UNINIT
    /\ context = ctxt
    /\ ctor = "new"

Init ==
    /\ \E ctxt \in Contexts :
          \/ NewUninitialized(ctxt)
          \/ \E d \in Values : New(d, ctxt)
    /\ primask = FALSE
    /\ stack = <<>>
    /\ last = NoEvent
    /\ deposited = FALSE
    /\ app = NoApp

(* ---------------- the core: calls, preemption ---------------- *)

\* the running code is at a place where it can call an operation:
\* thread mode, a handler body, or the callback of a try_lock
AtCallSite ==
    IF stack = <<>> THEN TRUE
    ELSE IF Top.kind = "handler" THEN TRUE
    ELSE Top.kind = "try_lock" /\ Top.pc = "callback"

Call(op, v) ==
    /\ AtCallSite
    /\ Len(stack) < MaxDepth
    /\ stack' = Append(stack, NewFrame(op, VectActive, v))
    /\ UNCHANGED <<data, state, context, ctor, app, primask, last, deposited>>

CallTryMove == \E v \in Values : Call("try_move", v)
CallTryFree == Call("try_free", 0)
CallTryLock == Call("try_lock", 0)

\* handler h preempts the running code.  Priorities are set by the firmware
\* and are not known here: any handler that is not active may preempt, except
\* that PRIMASK holds back the maskable ones and nothing preempts the NMI.
Preempt(h) ==
    /\ ~Active(h)
    /\ ~primask \/ NonMaskable(h)
    /\ ~NonMaskable(VectActive)
    /\ Len(stack) < MaxDepth
    /\ stack' = Append(stack, NewFrame("handler", h, 0))
    /\ UNCHANGED <<data, state, context, ctor, app, primask, last, deposited>>

HandlerReturn ==
    /\ stack # <<>>
    /\ Top.kind = "handler"
    /\ stack' = Pop
    /\ UNCHANGED <<data, state, context, ctor, app, primask, last, deposited>>

\* the top frame is an `op` frame at `pc`
At(op, pc) == stack # <<>> /\ Top.kind = op /\ Top.pc = pc

\* try_lock returns to its caller
Return(op) ==
    /\ At(op, "return")
    /\ stack' = Pop
    /\ UNCHANGED <<data, state, context, ctor, app, primask, last, deposited>>

\* cortex_m::interrupt::free, entry: read PRIMASK, disable interrupts
FreeEnter(op) ==
    /\ At(op, "enter")
    /\ primask' = TRUE
    /\ Step([Top EXCEPT !.pm = primask, !.pc = "vect_active"])
    /\ UNCHANGED <<data, state, context, ctor, app>>

\* faulty variant of FreeExit: interrupts stay disabled
FreeExit_LeavesMasked(op) ==
    /\ At(op, "exit")
    /\ primask' = TRUE
    /\ stack' = Pop
    /\ UNCHANGED <<data, state, context, ctor, app, last, deposited>>

\* cortex_m::interrupt::free, exit: enable interrupts if they were enabled
\* on entry; the operation returns its result to the caller
FreeExit(op) ==
    /\ At(op, "exit")
    /\ primask' = IF Top.pm THEN primask ELSE FALSE
    /\ stack' = Pop
    /\ UNCHANGED <<data, state, context, ctor, app, last, deposited>>

(* ---------------- try_move ---------------- *)

TryMoveFree == FreeEnter("try_move")

\* faulty variant of TryMoveVectActive: no thread-mode check
TryMoveVectActive_NoCheck ==
    /\ At("try_move", "vect_active")
    /\ Step([Top EXCEPT !.va = VectActive, !.pc = "load"])
    /\ UNCHANGED <<data, state, context, ctor, app, primask>>

TryMoveVectActive ==
    /\ At("try_move", "vect_active")
    /\ Step(IF VectActive = ThreadMode
                       THEN [Top EXCEPT !.va = VectActive, !.pc = "load"]
                       ELSE [Top EXCEPT !.va = VectActive, !.ret = ErrVal(Top.arg),
                                        !.pc = "exit"])
    /\ UNCHANGED <<data, state, context, ctor, app, primask>>

\* faulty variant of TryMoveLoad: a tag that is neither InitAndIdle nor Locked
\* is taken for Uninit
TryMoveLoad_DefaultIsUninit ==
    /\ At("try_move", "load")
    /\ Step(
         CASE state = INIT_AND_IDLE -> [Top EXCEPT !.pre = state, !.pc = "replace_read"]
           [] state = LOCKED -> [Top EXCEPT !.pre = state, !.ret = ErrVal(Top.arg), !.pc = "exit"]
           [] OTHER -> [Top EXCEPT !.pre = state, !.pc = "write"])
    /\ UNCHANGED <<data, state, context, ctor, app, primask>>

TryMoveLoad ==
    /\ At("try_move", "load")
    /\ Step(
         CASE state = UNINIT -> [Top EXCEPT !.pre = state, !.pc = "write"]
           [] state = INIT_AND_IDLE -> [Top EXCEPT !.pre = state, !.pc = "replace_read"]
           [] OTHER -> [Top EXCEPT !.pre = state, !.ret = ErrVal(Top.arg), !.pc = "exit"])
    /\ UNCHANGED <<data, state, context, ctor, app, primask>>

\* dat_ptr.write(data)
TryMoveWrite ==
    /\ At("try_move", "write")
    /\ data' = Top.arg
    /\ Step([Top EXCEPT !.pc = "store"])
    /\ UNCHANGED <<state, context, ctor, app, primask>>

\* faulty variant of TryMoveStore: stores both flags, a value that is no state
TryMoveStore_BothFlags ==
    /\ At("try_move", "store")
    /\ state' = INIT_AND_IDLE + LOCKED
    /\ Step([Top EXCEPT !.ret = OkNone, !.pc = "exit"])
    /\ UNCHANGED <<data, context, ctor, app, primask>>

\* self.state.store(Self::INIT_AND_IDLE); Ok(None)
TryMoveStore ==
    /\ At("try_move", "store")
    /\ state' = INIT_AND_IDLE
    /\ Step([Top EXCEPT !.ret = OkNone, !.pc = "exit"])
    /\ UNCHANGED <<data, context, ctor, app, primask>>

\* dat_ptr.replace(data), first half: read the old payload out
TryMoveReplaceRead ==
    /\ At("try_move", "replace_read")
    /\ Step([Top EXCEPT !.old = data, !.pc = "replace_write"])
    /\ UNCHANGED <<data, state, context, ctor, app, primask>>

\* faulty variant of TryMoveReplaceWrite: returns the new payload
TryMoveReplaceWrite_ReturnsNew ==
    /\ At("try_move", "replace_write")
    /\ data' = Top.arg
    /\ Step([Top EXCEPT !.ret = OkSome(Top.arg), !.pc = "exit"])
    /\ UNCHANGED <<state, context, ctor, app, primask>>

\* dat_ptr.replace(data), second half: write the new payload; Ok(Some(old))
TryMoveReplaceWrite ==
    /\ At("try_move", "replace_write")
    /\ data' = Top.arg
    /\ Step([Top EXCEPT !.ret = OkSome(Top.old), !.pc = "exit"])
    /\ UNCHANGED <<state, context, ctor, app, primask>>

TryMoveReturn == FreeExit("try_move")

(* ---------------- try_free ---------------- *)

TryFreeFree == FreeEnter("try_free")

TryFreeVectActive ==
    /\ At("try_free", "vect_active")
    /\ Step(IF VectActive = ThreadMode
                       THEN [Top EXCEPT !.va = VectActive, !.pc = "load"]
                       ELSE [Top EXCEPT !.va = VectActive, !.ret = ErrUnit, !.pc = "exit"])
    /\ UNCHANGED <<data, state, context, ctor, app, primask>>

\* faulty variant of TryFreeLoad: takes the payload out of a Locked instance
TryFreeLoad_LockedAsIdle ==
    /\ At("try_free", "load")
    /\ Step(
         CASE state = UNINIT -> [Top EXCEPT !.pre = state, !.ret = OkNone, !.pc = "exit"]
           [] state \in {INIT_AND_IDLE, LOCKED} -> [Top EXCEPT !.pre = state, !.pc = "replace"]
           [] OTHER -> [Top EXCEPT !.pre = state, !.ret = ErrUnit, !.pc = "exit"])
    /\ UNCHANGED <<data, state, context, ctor, app, primask>>

TryFreeLoad ==
    /\ At("try_free", "load")
    /\ Step(
         CASE state = UNINIT -> [Top EXCEPT !.pre = state, !.ret = OkNone, !.pc = "exit"]
           [] state = INIT_AND_IDLE -> [Top EXCEPT !.pre = state, !.pc = "replace"]
           [] OTHER -> [Top EXCEPT !.pre = state, !.ret = ErrUnit, !.pc = "exit"])
    /\ UNCHANGED <<data, state, context, ctor, app, primask>>

\* faulty variant of TryFreeReplace: reads the cell after emptying it
TryFreeReplace_ReadsAfter ==
    /\ At("try_free", "replace")
    /\ data' = Uninitialized
    /\ Step([Top EXCEPT !.old = Uninitialized, !.pc = "store"])
    /\ UNCHANGED <<state, context, ctor, app, primask>>

\* mu_ptr.replace(MaybeUninit::uninit()).assume_init()
TryFreeReplace ==
    /\ At("try_free", "replace")
    /\ data' = Uninitialized
    /\ Step([Top EXCEPT !.old = data, !.pc = "store"])
    /\ UNCHANGED <<state, context, ctor, app, primask>>

\* self.state.store(Self::UNINIT); Ok(Some(old))
TryFreeStore ==
    /\ At("try_free", "store")
    /\ state' = UNINIT
    /\ Step([Top EXCEPT !.ret = OkSome(Top.old), !.pc = "exit"])
    /\ UNCHANGED <<data, context, ctor, app, primask>>

TryFreeReturn == FreeExit("try_free")

(* ---------------- try_lock ---------------- *)

\* faulty variant of TryLockContext: waits for the bound context
TryLockContext_Waits ==
    /\ At("try_lock", "enter")
    /\ Step(IF ContextEq(context, VectActive)
                       THEN [Top EXCEPT !.va = VectActive, !.pc = "load"]
                       ELSE [Top EXCEPT !.va = VectActive])
    /\ UNCHANGED <<data, state, context, ctor, app, primask>>

\* if self.context != SCB::vect_active() { return Err(()) }
TryLockContext ==
    /\ At("try_lock", "enter")
    /\ Step(IF ContextEq(context, VectActive)
                       THEN [Top EXCEPT !.va = VectActive, !.pc = "load"]
                       ELSE [Top EXCEPT !.va = VectActive, !.ret = ErrUnit, !.pc = "return"])
    /\ UNCHANGED <<data, state, context, ctor, app, primask>>

\* faulty variant of TryLockLoad: no reentrancy check
TryLockLoad_NoReentrancyCheck ==
    /\ At("try_lock", "load")
    /\ Step(
         CASE state = UNINIT -> [Top EXCEPT !.pre = state, !.ret = ErrUnit, !.pc = "return"]
           [] state \in {INIT_AND_IDLE, LOCKED} -> [Top EXCEPT !.pre = state, !.pc = "lock"]
           [] OTHER -> [Top EXCEPT !.pre = state, !.ret = ErrUnit, !.pc = "return"])
    /\ UNCHANGED <<data, state, context, ctor, app, primask>>

TryLockLoad ==
    /\ At("try_lock", "load")
    /\ Step(
         CASE state = UNINIT -> [Top EXCEPT !.pre = state, !.ret = ErrUnit, !.pc = "return"]
           [] state = INIT_AND_IDLE -> [Top EXCEPT !.pre = state, !.pc = "lock"]
           [] OTHER -> [Top EXCEPT !.pre = state, !.ret = ErrUnit, !.pc = "return"])
    /\ UNCHANGED <<data, state, context, ctor, app, primask>>

\* faulty variant of TryLockStoreLocked: the store is made with interrupts
\* disabled
TryLockStoreLocked_Masks ==
    /\ At("try_lock", "lock")
    /\ state' = LOCKED
    /\ primask' = TRUE
    /\ Step([Top EXCEPT !.pc = "call"])
    /\ UNCHANGED <<data, context, ctor, app>>

\* self.state.store(Self::LOCKED)
TryLockStoreLocked ==
    /\ At("try_lock", "lock")
    /\ state' = LOCKED
    /\ Step([Top EXCEPT !.pc = "call"])
    /\ UNCHANGED <<data, context, ctor, app, primask>>

\* let dat_ref = &mut *dat_ptr; f(dat_ref): the callback starts
TryLockCall ==
    /\ At("try_lock", "call")
    /\ Step([Top EXCEPT !.old = data, !.view = data, !.cb = @ + 1,
                                    !.pc = "callback"])
    /\ UNCHANGED <<data, state, context, ctor, app, primask>>

\* the callback writes the payload through dat_ref
CallbackWrite ==
    /\ At("try_lock", "callback")
    /\ \E v \in Values :
          /\ data' = v
          /\ Step([Top EXCEPT !.view = v])
    /\ UNCHANGED <<state, context, ctor, app, primask>>

\* faulty variant of CallbackReturn: try_lock returns without the unlock store
CallbackReturn_SkipsUnlock ==
    /\ At("try_lock", "callback")
    /\ \E r \in Values : Step([Top EXCEPT !.arg = r, !.ret = OkSome(r), !.pc = "return"])
    /\ UNCHANGED <<data, state, context, ctor, app, primask>>

\* the callback returns r
CallbackReturn ==
    /\ At("try_lock", "callback")
    /\ \E r \in Values : Step([Top EXCEPT !.arg = r, !.pc = "unlock"])
    /\ UNCHANGED <<data, state, context, ctor, app, primask>>

\* faulty variant of TryLockStoreIdle: the tag stays Locked
TryLockStoreIdle_NoStore ==
    /\ At("try_lock", "unlock")
    /\ state' = state
    /\ Step([Top EXCEPT !.ret = OkSome(Top.arg), !.pc = "return"])
    /\ UNCHANGED <<data, context, ctor, app, primask>>

\* self.state.store(Self::INIT_AND_IDLE); Ok(ret)
TryLockStoreIdle ==
    /\ At("try_lock", "unlock")
    /\ state' = INIT_AND_IDLE
    /\ Step([Top EXCEPT !.ret = OkSome(Top.arg), !.pc = "return"])
    /\ UNCHANGED <<data, context, ctor, app, primask>>

TryLockReturn == Return("try_lock")

(* ---------------- specification ---------------- *)

Next ==
    \/ CallTryMove
    \/ CallTryFree
    \/ CallTryLock
    \/ \E h \in Handlers : Preempt(h)
    \/ HandlerReturn
    \/ TryMoveFree
    \/ TryMoveVectActive
    \/ TryMoveLoad
    \/ TryMoveWrite
    \/ TryMoveStore
    \/ TryMoveReplaceRead
    \/ TryMoveReplaceWrite
    \/ TryMoveReturn
    \/ TryFreeFree
    \/ TryFreeVectActive
    \/ TryFreeLoad
    \/ TryFreeReplace
    \/ TryFreeStore
    \/ TryFreeReturn
    \/ TryLockContext
    \/ TryLockLoad
    \/ TryLockStoreLocked
    \/ TryLockCall
    \/ CallbackWrite
    \/ CallbackReturn
    \/ TryLockStoreIdle
    \/ TryLockReturn

Spec == Init /\ [][Next]_vars

\* one step of the code of an operation or of a handler that brings it closer
\* to its return: every step of try_move, try_free and try_lock, the return of
\* the callback and the return of a handler.  A write of the callback and a
\* call made by a callback or a handler are not among them: they may go on
\* for as long as the callback or handler likes.
Advance ==
    \/ HandlerReturn
    \/ TryMoveFree
    \/ TryMoveVectActive
    \/ TryMoveLoad
    \/ TryMoveWrite
    \/ TryMoveStore
    \/ TryMoveReplaceRead
    \/ TryMoveReplaceWrite
    \/ TryMoveReturn
    \/ TryFreeFree
    \/ TryFreeVectActive
    \/ TryFreeLoad
    \/ TryFreeReplace
    \/ TryFreeStore
    \/ TryFreeReturn
    \/ TryLockContext
    \/ TryLockLoad
    \/ TryLockStoreLocked
    \/ TryLockCall
    \/ CallbackReturn
    \/ TryLockStoreIdle
    \/ TryLockReturn

\* the code running at stack depth d advances
Runs(d) == Len(stack) = d /\ Advance

\* The single core runs the code at depth d whenever nothing preempts it, and
\* callbacks and handlers return: the code at each depth advances again and
\* again as long as it keeps coming back to the top of the stack.
\* Termination is checked on calls nested to LiveDepth.
SpecLive ==
    /\ Init
    /\ [][Next /\ Len(stack') <= LiveDepth]_vars
    /\ \A d \in 1..LiveDepth : SF_vars(Runs(d))

\* The operations on an instance whose tag is any value of 0..MaxTag.  From
\* thread mode the tag is never seen Locked or out of range in Spec, so the
\* `Self::LOCKED | _` arms of try_move and try_free are reached from here.
\* A tag InitAndIdle or Locked comes with a payload.
InitTag ==
    /\ context \in Contexts
    /\ ctor \in {"new", "new_uninitialized"}
    /\ state \in 0..MaxTag
    /\ data \in Payloads
    /\ ctor = "new" => data \in Values
    /\ state \in {INIT_AND_IDLE, LOCKED} => data \in Values
    /\ primask = FALSE
    /\ stack = <<>>
    /\ last = NoEvent
    /\ deposited = (state # UNINIT)
    /\ app = NoApp

SpecTag == InitTag /\ [][Next]_vars

(* ---------------- the timer-uart application ---------------- *)

\* The application has two instances, TIMER_1_DATA bound to the TIMER1
\* interrupt and SYSTICK_DATA bound to the SysTick exception.  They share
\* nothing; `context` selects the one that is followed here, and the
\* statements of main and the handler that work on the other one are steps
\* without effect on it.
TIMER_1_DATA == ContextInterrupt(0)
SYSTICK_DATA == ContextException("SysTick")

\* the handlers of the application, as live contexts
TIMER1 == VectInterrupt(0)
SysTick == VectException("SysTick")

\* the handler that locks the instance followed
BoundHandler == IF context = TIMER_1_DATA THEN TIMER1 ELSE SysTick

\* main runs: thread mode, nothing in progress, no panic (panic_halt stops
\* the program where the panic happens)
MainAt(pc) == stack = <<>> /\ app.pc = pc /\ ~app.panicked

InitApp ==
    /\ \E ctxt \in {TIMER_1_DATA, SYSTICK_DATA} : NewUninitialized(ctxt)
    /\ primask = FALSE
    /\ stack = <<>>
    /\ last = NoEvent
    /\ deposited = FALSE
    /\ app = [pc |-> "enable_timer1", enabled |-> {}, panicked |-> FALSE]

\* itimer.start(1_000_000u32); itimer.enable_interrupt(&mut board.NVIC)
MainEnableTimer1 ==
    /\ MainAt("enable_timer1")
    /\ app' = [app EXCEPT !.pc = "enable_systick", !.enabled = @ \cup {TIMER1}]
    /\ UNCHANGED <<data, state, context, ctor, primask, stack, last, deposited>>

\* board.SYST.enable_counter(); board.SYST.enable_interrupt()
MainEnableSysTick ==
    /\ MainAt("enable_systick")
    /\ app' = [app EXCEPT !.pc = "move_timer1", !.enabled = @ \cup {SysTick}]
    /\ UNCHANGED <<data, state, context, ctor, primask, stack, last, deposited>>

\* the instance that main's statement at pc works on
MovedAt(pc) == IF pc = "move_timer1" THEN TIMER_1_DATA ELSE SYSTICK_DATA

\* what main does after the statement at pc
AfterMove(pc) == IF pc = "move_timer1" THEN "move_systick" ELSE "loop"

\* TIMER_1_DATA.try_move(..) / SYSTICK_DATA.try_move(..) on the instance
\* followed: the call
MainTryMove ==
    /\ \/ MainAt("move_timer1")
       \/ MainAt("move_systick")
    /\ MovedAt(app.pc) = context
    /\ \E v \in Values : stack' = <<NewFrame("try_move", VectActive, v)>>
    /\ UNCHANGED <<data, state, context, ctor, app, primask, last, deposited>>

\* .map_err(drop).unwrap() on the result of that try_move
MainUnwrap ==
    /\ At("try_move", "exit")
    /\ ~app.panicked
    /\ primask' = IF Top.pm THEN primask ELSE FALSE
    /\ stack' = Pop
    /\ app' = IF Top.ret.t = "Ok"
                THEN [app EXCEPT !.pc = AfterMove(@)]
                ELSE [app EXCEPT !.panicked = TRUE]
    /\ UNCHANGED <<data, state, context, ctor, last, deposited>>

\* the try_move on the other instance, unwrap included
MainTryMoveOther ==
    /\ \/ MainAt("move_timer1")
       \/ MainAt("move_systick")
    /\ MovedAt(app.pc) # context
    /\ app' = [app EXCEPT !.pc = AfterMove(@)]
    /\ UNCHANGED <<data, state, context, ctor, primask, stack, last, deposited>>

\* An enabled interrupt or exception is taken.  The application leaves both
\* at their reset priority, so neither preempts the other: a handler starts
\* from thread mode only.  When the timer or the counter fires is not known
\* here: any time from the moment it is enabled.
Taken(h) ==
    /\ h \in app.enabled
    /\ ~app.panicked
    /\ ~primask
    /\ VectActive = ThreadMode
    /\ stack' = Append(stack, NewFrame("handler", h, 0))
    /\ UNCHANGED <<data, state, context, ctor, app, primask, last, deposited>>

\* fn TIMER1() / fn SysTick() of the instance followed: the call of try_lock
HandlerTryLock ==
    /\ stack # <<>>
    /\ Top.kind = "handler"
    /\ Top.pc = "enter"
    /\ Top.ctx = BoundHandler
    /\ stack' = Append(SetTop([Top EXCEPT !.pc = "unwrap"]),
                       NewFrame("try_lock", VectActive, 0))
    /\ UNCHANGED <<data, state, context, ctor, app, primask, last, deposited>>

\* .map_err(drop).unwrap() on the result of try_lock
HandlerUnwrap ==
    /\ At("try_lock", "return")
    /\ ~app.panicked
    /\ Len(stack) > 1
    /\ stack' = [Pop EXCEPT ![Len(stack) - 1].pc = "done"]
    /\ app' = IF Top.ret.t = "Ok" THEN app ELSE [app EXCEPT !.panicked = TRUE]
    /\ UNCHANGED <<data, state, context, ctor, primask, last, deposited>>

\* the handler of the other instance, from entry to its last statement
HandlerOther ==
    /\ stack # <<>>
    /\ Top.kind = "handler"
    /\ Top.pc = "enter"
    /\ Top.ctx # BoundHandler
    /\ stack' = SetTop([Top EXCEPT !.pc = "done"])
    /\ UNCHANGED <<data, state, context, ctor, app, primask, last, deposited>>

\* the handler returns
HandlerDone ==
    /\ stack # <<>>
    /\ Top.kind = "handler"
    /\ Top.pc = "done"
    /\ ~app.panicked
    /\ stack' = Pop
    /\ UNCHANGED <<data, state, context, ctor, app, primask, last, deposited>>

\* The application: main, the two handlers, and the steps of the try_move and
\* try_lock they call (the first try_move on an instance takes the UNINIT
\* arm).  The loop of main (lines 81-95) touches neither instance.
NextApp ==
    \/ MainEnableTimer1
    \/ MainEnableSysTick
    \/ MainTryMove
    \/ MainTryMoveOther
    \/ MainUnwrap
    \/ \E h \in {TIMER1, SysTick} : Taken(h)
    \/ HandlerTryLock
    \/ HandlerUnwrap
    \/ HandlerOther
    \/ HandlerDone
    \/ TryMoveFree
    \/ TryMoveVectActive
    \/ TryMoveLoad
    \/ TryMoveWrite
    \/ TryMoveStore
    \/ TryLockContext
    \/ TryLockLoad
    \/ TryLockStoreLocked
    \/ TryLockCall
    \/ CallbackWrite
    \/ CallbackReturn
    \/ TryLockStoreIdle

SpecApp == InitApp /\ [][NextApp]_vars

(* ---------------- properties ---------------- *)

Frames == 1..Len(stack)

\* frame f was called while `live` was the live context
CalledFrom(f, live) == f.ctx = live

\* the callback of try_lock frame f is in progress
InCallback(f) == f.kind = "try_lock" /\ f.pc = "callback"

\* try_move or try_free frame f has touched the payload and has not yet
\* finished the update of payload and tag
MidUpdate(f) ==
    \/ f.kind = "try_move" /\ f.pc \in {"store", "replace_write"}
    \/ f.kind = "try_free" /\ f.pc = "store"

\* C1: the payload is never accessed by two parties at once: among the
\* operations in progress (running or preempted) at most one is a try_lock
\* callback or a try_move/try_free in the middle of its payload update.
C1_ExclusiveAccess ==
    Cardinality({i \in Frames : InCallback(stack[i]) \/ MidUpdate(stack[i])}) <= 1

\* C2: whenever a try_lock callback has been invoked, the payload it was
\* given is a fully written, not yet freed payload, and no try_move or
\* try_free is suspended between its payload mutation and its tag update.
C2_NoHalfUpdate ==
    \A i \in Frames :
        (stack[i].kind = "try_lock" /\ stack[i].cb > 0) =>
            /\ stack[i].old \in Values
            /\ \A j \in 1..(i - 1) : ~MidUpdate(stack[j])

\* The two properties above hold of every instance bound to a context that
\* PRIMASK masks: the violations need a bound NonMaskableInt.
MaskableExclusiveAccess == ~NonMaskable(context) => C1_ExclusiveAccess
MaskableNoHalfUpdate == ~NonMaskable(context) => C2_NoHalfUpdate

\* no operation has been called on the instance since it was constructed
Untouched == last = NoEvent /\ \A i \in Frames : stack[i].kind = "handler"

\* the running frame is an `op` frame whose result is set by this step
Decides(op) ==
    /\ stack # <<>>
    /\ Top.kind = op
    /\ Top.ret = NoRet
    /\ Len(stack') = Len(stack)
    /\ stack'[Len(stack)].ret # NoRet

\* C3: an instance built by Move::new starts InitAndIdle holding the payload
\* it was given, so that a try_lock from the bound context returns Ok with no
\* operation before it; one built by new_uninitialized starts Uninit.
C3_Constructors ==
    [][ /\ (ctor = "new" /\ Untouched) => (state = INIT_AND_IDLE /\ data \in Values)
        /\ (ctor = "new_uninitialized" /\ Untouched) => (state = UNINIT)
        /\ ( /\ ctor = "new"
             /\ last = NoEvent
             /\ Decides("try_lock")
             /\ Top.ctx = context ) => stack'[Len(stack)].ret.t = "Ok"
      ]_vars

\* C4: a try_move(v) called from thread mode that finds the tag Uninit
\* returns Ok(None) and leaves the instance InitAndIdle holding v; one that
\* finds InitAndIdle returns Ok(Some(u)), u the payload it took out, and
\* leaves the instance InitAndIdle holding v.  A try_move that comes right
\* after a successful try_move(w) returns Ok(Some(w)).
C4_TryMoveThread ==
    [][ (Decides("try_move") /\ CalledFrom(Top, ThreadMode)) =>
          LET f == stack'[Len(stack)] IN
          /\ f.pre = UNINIT =>
                (f.ret = OkNone /\ state' = INIT_AND_IDLE /\ data' = f.arg)
          /\ f.pre = INIT_AND_IDLE =>
                (f.ret = OkSome(f.old) /\ state' = INIT_AND_IDLE /\ data' = f.arg)
          /\ (last.op = "try_move" /\ last.ok) => f.ret = OkSome(last.arg)
      ]_vars

C4_Witness ==
    /\ At("try_move", "exit")
    /\ CalledFrom(Top, ThreadMode)
    /\ last.op = "try_move" /\ last.ok
    /\ last.after \in Values
    /\ Top.ret = OkSome(last.after)
    /\ Top.arg # last.after
    /\ state = INIT_AND_IDLE /\ data = Top.arg

\* C5: a try_free called from thread mode that finds the tag Uninit returns
\* Ok(None) and leaves it Uninit; one that finds InitAndIdle returns
\* Ok(Some(x)), x the payload it took out, and leaves the tag Uninit; one
\* that finds Locked returns Err(()) and changes neither tag nor payload.
C5_TryFreeThread ==
    [][ /\ (Decides("try_free") /\ CalledFrom(Top, ThreadMode)) =>
             LET f == stack'[Len(stack)] IN
             /\ f.pre = UNINIT =>
                   (f.ret = OkNone /\ state' = UNINIT /\ data' = data)
             /\ f.pre = INIT_AND_IDLE =>
                   (f.ret = OkSome(f.old) /\ f.old \in Values /\ state' = UNINIT)
             /\ f.pre = LOCKED =>
                   (f.ret = ErrUnit /\ state' = LOCKED /\ data' = data)
        /\ ( /\ stack # <<>>
             /\ Top.kind = "try_free"
             /\ CalledFrom(Top, ThreadMode)
             /\ Top.pre = LOCKED ) => (state' = state /\ data' = data)
      ]_vars

C5_Witness ==
    /\ At("try_free", "exit")
    /\ CalledFrom(Top, ThreadMode)
    /\ Top.pre = LOCKED
    /\ Top.ret = ErrUnit
    /\ state = LOCKED /\ data \in Values

\* C6: a try_lock from the bound context that finds the tag InitAndIdle has,
\* when it returns, invoked the callback exactly once, returns Ok of what
\* the callback returned, the tag is InitAndIdle again and the cell holds
\* the payload as the callback left it; while the callback runs the cell
\* holds what the callback was given or wrote last.
C6_TryLockIdle ==
    \A i \in Frames :
        LET f == stack[i] IN
        /\ ( /\ f.kind = "try_lock"
             /\ f.ctx = context
             /\ f.pre = INIT_AND_IDLE
             /\ f.pc = "return" ) =>
               /\ f.cb = 1
               /\ f.ret = OkSome(f.arg)
               /\ state = INIT_AND_IDLE
               /\ data = f.view
        /\ InCallback(f) => (f.cb = 1 /\ data = f.view)

C6_Witness ==
    /\ At("try_lock", "return")
    /\ Top.ctx = context
    /\ Top.pre = INIT_AND_IDLE
    /\ Top.cb = 1
    /\ Top.ret.t = "Ok"
    /\ Top.view # Top.old
    /\ data = Top.view
    /\ state = INIT_AND_IDLE

\* C7: while any handler is the live context, no step of a try_move or
\* try_free changes the tag or the payload, try_move(v) returns Err(v) and
\* try_free returns Err(()).
C7_HandlerRejected ==
    [][ ( /\ stack # <<>>
          /\ Top.kind \in {"try_move", "try_free"}
          /\ ~CalledFrom(Top, ThreadMode) ) =>
            /\ state' = state
            /\ data' = data
            /\ Top.pc = "exit" =>
                  Top.ret = IF Top.kind = "try_move" THEN ErrVal(Top.arg) ELSE ErrUnit
      ]_vars

C7_Witness ==
    /\ At("try_move", "exit")
    /\ Top.ctx = context
    /\ Top.ret = ErrVal(Top.arg)
    /\ state = LOCKED
    /\ data # Top.arg

Inner(i) ==
    /\ stack[i].kind = "try_lock"
    /\ \E j \in 1..(i - 1) : InCallback(stack[j])

\* C9: a try_lock called while a try_lock callback on the instance is in
\* progress never invokes its callback, never changes the tag and returns
\* Err(()); the outer try_lock still returns Ok with the tag InitAndIdle.
C9_Reentrant ==
    [][ /\ (stack # <<>> /\ Inner(Len(stack))) =>
              /\ state' = state
              /\ Top.cb = 0
              /\ Top.pc # "callback"
              /\ Top.pc = "return" => Top.ret = ErrUnit
        /\ \A i \in Frames :
              (stack[i].kind = "try_lock" /\ stack[i].cb > 0 /\ stack[i].pc = "return") =>
                  (stack[i].ret.t = "Ok" /\ state = INIT_AND_IDLE)
        /\ \A i \in Frames : InCallback(stack[i]) => state = LOCKED
      ]_vars

C9_Witness ==
    /\ At("try_lock", "return")
    /\ Inner(Len(stack))
    /\ Top.ctx = context
    /\ Top.pre = LOCKED
    /\ Top.ret = ErrUnit

\* C10: a thread-mode try_free that comes right after a successful
\* try_move(x) returns Ok(Some(x)) and leaves the tag Uninit.
C10_RoundTrip ==
    [][ ( /\ Decides("try_free")
          /\ CalledFrom(Top, ThreadMode)
          /\ last.op = "try_move"
          /\ last.ok ) =>
            (stack'[Len(stack)].ret = OkSome(last.arg) /\ state' = UNINIT)
      ]_vars

C10_Witness ==
    /\ At("try_free", "exit")
    /\ CalledFrom(Top, ThreadMode)
    /\ last.op = "try_free" /\ last.ok
    /\ last.after \in Values
    /\ Top.ret = OkSome(last.after)
    /\ state = UNINIT

\* try_lock frame f has read SCB::vect_active() and compared it
Compared(f) == f.kind = "try_lock" /\ f.va # NoVect

\* try_lock frame f found the live context equal to the bound context
Matched(f) == f.pc = "load" \/ f.pre # NoTag

\* the rule of spec section 4.2 for bound context c and live context v
MatchRule(c, v) ==
    \/ c.kind = "Exception" /\ v.kind = "Exception" /\ c.exc = v.exc
    \/ c.kind = "Interrupt" /\ v.kind = "Interrupt" /\ c.irqn = v.irqn

LockInProgress == \E i \in Frames : stack[i].kind = "try_lock"

\* C12: the tag is Locked only while a try_lock call is in progress, between
\* its store of LOCKED and its store of INIT_AND_IDLE; a try_move or try_free
\* called from thread mode never loads Locked.
C12_LockedIsPrivate ==
    /\ ~LockInProgress => state # LOCKED
    /\ state = LOCKED =>
          \E i \in Frames :
              stack[i].kind = "try_lock" /\ stack[i].pc \in {"call", "callback", "unlock"}
    /\ \A i \in Frames :
          ( /\ stack[i].kind \in {"try_move", "try_free"}
            /\ CalledFrom(stack[i], ThreadMode) ) => stack[i].pre # LOCKED

C12_Witness ==
    /\ At("try_free", "replace")
    /\ CalledFrom(Top, ThreadMode)
    /\ Top.pre = INIT_AND_IDLE
    /\ last.op = "try_lock" /\ last.ok
    /\ state = INIT_AND_IDLE

States == {UNINIT, INIT_AND_IDLE, LOCKED}

\* C13: the tag holds one of the three values Uninit (0), InitAndIdle (1),
\* Locked (2) in every state the operations reach from either constructor,
\* and no step stores any other value.
C13_TagRange ==
    [][ /\ state \in States
        /\ state' \in States
      ]_vars

C13_Witness ==
    /\ stack # <<>>
    /\ InCallback(Top)
    /\ state = LOCKED
    /\ last.op = "try_move" /\ last.ok
    /\ last.after \in Values

\* C14: on an instance built empty, a try_lock from the bound context
\* returns Err(()) as long as no try_move has succeeded; once one has, and
\* until a try_free takes the payload out, every try_lock from the bound
\* context that is not called from inside a callback returns Ok.
C14_LockFollowsDeposit ==
    [][ ( /\ ctor = "new_uninitialized"
          /\ Decides("try_lock")
          /\ Top.ctx = context ) =>
            /\ ~deposited => stack'[Len(stack)].ret = ErrUnit
            /\ (deposited /\ ~Inner(Len(stack))) => stack'[Len(stack)].ret.t = "Ok"
      ]_vars

C14_Witness ==
    /\ ctor = "new_uninitialized"
    /\ At("try_lock", "return")
    /\ Top.ctx = context
    /\ Top.ret.t = "Ok"
    /\ deposited
    /\ last.op = "try_lock" /\ last.ok /\ last.after \in Values

\* a critical section of try_move or try_free is open
InFree(f) ==
    /\ f.kind \in {"try_move", "try_free"}
    /\ f.pc # "enter"

\* C15: provided callbacks and handlers return, every started try_move,
\* try_free and try_lock returns: calls and preemptions nest, so that is to
\* say the stack of operations in progress empties again and again.  And
\* interrupts are disabled only while a try_move or try_free is inside its
\* critical section: they are enabled again once it has returned, on every
\* return path.
C15_Terminates ==
    /\ []<>(stack = <<>>)
    /\ [](primask => \E i \in Frames : InFree(stack[i]))

C15_Witness ==
    /\ stack = <<>>
    /\ ~primask
    /\ last.op = "try_move" /\ ~last.ok

\* this step is one of a try_move called outside thread mode
TryMoveInHandler ==
    /\ stack # <<>>
    /\ Top.kind = "try_move"
    /\ Top.ctx # ThreadMode
    /\ Len(stack') <= Len(stack)

\* C16 as stated: a try_move called outside thread mode returns Err with the
\* value it was given, touches neither tag nor payload, and never disables
\* interrupts.
C16_NoCriticalSection ==
    [][ TryMoveInHandler =>
            /\ state' = state
            /\ data' = data
            /\ Decides("try_move") => stack'[Len(stack)].ret = ErrVal(Top.arg)
            /\ primask' = primask
      ]_vars

\* C16 amended: a try_move called outside thread mode returns Err with the
\* value it was given and touches neither tag nor payload; it makes its
\* context check inside the critical section, with interrupts disabled, does
\* nothing else there, and leaves with the interrupt mask as it found it.
C16_RejectedInsideFree ==
    [][ TryMoveInHandler =>
            /\ state' = state
            /\ data' = data
            /\ Decides("try_move") => stack'[Len(stack)].ret = ErrVal(Top.arg)
            /\ Top.pc \in {"enter", "vect_active", "exit"}
            /\ Top.pc = "enter" => primask'
            /\ Top.pc = "vect_active" => (primask /\ Decides("try_move"))
            /\ Top.pc = "exit" => (primask /\ primask' = Top.pm)
      ]_vars

C16_Witness ==
    /\ stack # <<>>
    /\ Top.kind = "handler"
    /\ last.op = "try_move" /\ ~last.ok
    /\ ~primask

\* how far a try_move or try_free has got inside its critical section
Rank(pc) ==
    CASE pc = "enter" -> 0
      [] pc = "vect_active" -> 1
      [] pc = "load" -> 2
      [] pc \in {"write", "replace_read", "replace"} -> 3
      [] pc \in {"store", "replace_write"} -> 4
      [] OTHER -> 5

\* C17: no step of a try_lock call changes the interrupt mask, from the
\* context check to the return, the callback included; the mask changes only
\* where a try_move or try_free enters or leaves its critical section, and
\* between the two that call makes one context check, one tag load and one
\* update of payload and tag, each at most once.
C17_OnlyFreeMasks ==
    [][ /\ (stack # <<>> /\ Top.kind = "try_lock") => primask' = primask
        /\ primask' # primask =>
              /\ stack # <<>>
              /\ Top.kind \in {"try_move", "try_free"}
              /\ Top.pc \in {"enter", "exit"}
        /\ ( /\ stack # <<>>
              /\ Top.kind \in {"try_move", "try_free"}
              /\ Len(stack') = Len(stack) ) =>
                 /\ Rank(stack'[Len(stack)].pc) > Rank(Top.pc)
                 /\ Top.pc # "enter" => primask
      ]_vars

C17_Witness ==
    /\ ~primask
    /\ \E i \in 1..(Len(stack) - 1) :
          /\ InCallback(stack[i])
          /\ stack[i].pre = INIT_AND_IDLE
          /\ stack[i + 1].kind = "handler"
          /\ ~NonMaskable(stack[i + 1].ctx)

\* the result of a failed call of frame f: Err(v) for try_move(v), else Err(())
Failure(f) == IF f.kind = "try_move" THEN ErrVal(f.arg) ELSE ErrUnit

\* C18: an operation that gets as far as loading the tag (try_move and
\* try_free in thread mode, try_lock in the bound context) and finds it to be
\* Locked or out of range fails there and then: try_move(v) with Err(v),
\* try_free and try_lock with Err(()); the callback is not invoked, and no
\* step of that call changes the tag or the payload.
C18_FailClosed ==
    [][ ( /\ stack # <<>>
          /\ Top.kind \in {"try_move", "try_free", "try_lock"}
          /\ Len(stack') <= Len(stack) ) =>
            /\ (Top.pc = "load" /\ state \notin {UNINIT, INIT_AND_IDLE}) =>
                  /\ stack'[Len(stack)].ret = Failure(Top)
                  /\ stack'[Len(stack)].cb = 0
                  /\ state' = state
                  /\ data' = data
            /\ Top.pre \notin {NoTag, UNINIT, INIT_AND_IDLE} =>
                  /\ Top.ret = Failure(Top)
                  /\ Top.cb = 0
                  /\ state' = state
                  /\ data' = data
      ]_vars

C18_Witness ==
    /\ At("try_lock", "return")
    /\ Top.ctx = context
    /\ Top.pre > LOCKED
    /\ Top.ret = ErrUnit
    /\ state = Top.pre
    /\ last.op = "try_lock" /\ ~last.ok

\* this step, one of a try_move or try_free, keeps count of the payloads:
\* what it overwrites in the cell is no value or the value it hands back; a
\* value returned as Ok(Some) is the one it took out of the cell, which then
\* holds the new value (try_move) or none (try_free); try_move(v) returning
\* Ok leaves v in the cell, and returning Err(v) leaves the cell as it was.
Conserves ==
    LET n == Len(stack)
        g == IF Len(stack') = n THEN stack'[n] ELSE Top
    IN  /\ data' # data => (data = Uninitialized \/ g.old = data)
        /\ Decides(Top.kind) =>
              /\ (g.ret.t = "Ok" /\ g.ret.some) => g.ret.v = g.old
              /\ (g.ret.t = "Ok" /\ Top.kind = "try_move") => data' = Top.arg
              /\ (g.ret.t = "Ok" /\ g.ret.some /\ Top.kind = "try_free") =>
                    (data' = Uninitialized /\ state' = UNINIT)
              /\ g.ret.t = "Err" => (g.ret = Failure(Top) /\ data' = data)

\* C19: every value given to the instance, by Move::new or try_move, is the
\* payload of the cell or has been handed back once: no step of a try_move
\* or try_free overwrites a value that is not handed back, returns a value
\* that stays in the cell, or drops the value it was given.
C19_Conservation ==
    [][ ( /\ stack # <<>>
          /\ Top.kind \in {"try_move", "try_free"}
          /\ Len(stack') <= Len(stack) ) => Conserves
      ]_vars

\* The payloads are conserved on an instance built empty and bound to a
\* context that the critical section masks.
MaskableEmptyConservation ==
    [][ ( /\ ctor = "new_uninitialized"
          /\ ~NonMaskable(context)
          /\ stack # <<>>
          /\ Top.kind \in {"try_move", "try_free"}
          /\ Len(stack') <= Len(stack) ) => Conserves
      ]_vars

\* C20: in the timer-uart application the payload is in the instance before
\* its handler first runs: whenever the handler of an instance is running the
\* instance has been given its payload, every try_lock of a handler returns
\* Ok, and no unwrap panics.
C20_NeverPanics ==
    /\ ~app.panicked
    /\ \A i \in Frames :
          /\ (stack[i].kind = "handler" /\ stack[i].ctx = BoundHandler) => deposited
          /\ (stack[i].kind = "try_lock" /\ stack[i].ret # NoRet) => stack[i].ret.t = "Ok"

====
